---- MODULE Spec2Model ----
(***************************************************************************)
(* A model of hteaml: the document model, builder and renderer of the      *)
(* hteaml crate (src/hteaml/src/lib.rs) and the parser and code generator  *)
(* of the hteaml! macro (src/hteaml-macro/src/lib.rs).                     *)
(*                                                                         *)
(* A Str is a sequence of one-character strings, so that rendering is a    *)
(* concatenation whose result can be inspected character by character.     *)
(***************************************************************************)
EXTENDS Integers, Sequences, FiniteSets, TLC

VARIABLES
    tag,      \* builder: the Tag value the chain of builder calls has produced
    calls,    \* builder: the builder calls made so far, in order (history)
    out,      \* builder: the last render() result of tag, or NoOut
    items,    \* sequences: the three elements A, B, C
    seqOut,   \* sequences: the renderings of the three groupings, or NoOut
    input,    \* parser: the tokens between the parentheses of the tag parsed
    pc,       \* parser: the position of Tag::parse in its body
    name,     \* parser: the parsed name (a Value) or NoVal
    cursor,   \* parser: the index of the next token of the main cursor `content`
    fork,     \* parser: the index of the next token of the forked cursor
    attrs,    \* parser: the Attrs pushed so far
    lastOk,   \* parser: the fork's index after the last Attr that parsed (history)
    cont,     \* parser: the parsed Content
    unexpected, \* parser: syn's `unexpected` cell: a buffer was dropped with tokens left
    result,   \* parser: what parsing the whole macro input returned
    tree,     \* parser: the hteaml::Html value the generated code evaluates to
    html      \* parser: the rendering of tree

vars == <<tag, calls, out, items, seqOut, input, pc, name, cursor, fork, attrs,
          lastOk, cont, unexpected, result, tree, html>>

buildVars == <<tag, calls, out>>
seqVars == <<items, seqOut>>
parseVars == <<input, pc, name, cursor, fork, attrs, lastOk, cont, unexpected, result,
               tree, html>>

NoOut == <<"NoOut">>
NoVal == [kind |-> "NoVal"]

(***************************************************************************)
(* Bounds of the model.                                                    *)
(***************************************************************************)
MaxCalls == 3     \* builder calls after Tag::new
MaxAttrs == 2
MaxTop == 3     \* attribute-position segments in a parsed tag

-----------------------------------------------------------------------------
(***************************************************************************)
(* The document model of the hteaml crate.                                 *)
(***************************************************************************)

\* Content::Str and Content::Html
ContentStr(s) == [kind |-> "Str", s |-> s]
ContentHtml(h) == [kind |-> "Html", h |-> h]

\* Html::Tag, Html::Comment, Html::Html
HtmlTag(t) == [kind |-> "Tag", t |-> t]
HtmlComment(c) == [kind |-> "Comment", c |-> c]
HtmlSeq(v) == [kind |-> "Html", v |-> v]

\* Comment::new
CommentNew(c) == c

\* Tag::new
TagNew(n) == [name |-> n, attributes |-> <<>>, content |-> <<>>, self_closing |-> FALSE]

TagAttrOverwrite(t, k, v) ==
    IF \E i \in 1..Len(t.attributes) : t.attributes[i].key = k
    THEN [t EXCEPT !.attributes =
            [i \in 1..Len(t.attributes) |->
                IF t.attributes[i].key = k THEN [key |-> k, val |-> v]
                ELSE t.attributes[i]]]
    ELSE [t EXCEPT !.attributes = Append(@, [key |-> k, val |-> v])]

\* Tag::attr
TagAttr(t, k, v) == [t EXCEPT !.attributes = Append(@, [key |-> k, val |-> v])]

TagContentFlattening(t, c) ==
    IF c.kind = "Html" /\ c.h.kind = "Html"
    THEN [t EXCEPT !.content = @ \o [i \in 1..Len(c.h.v) |-> ContentHtml(c.h.v[i])]]
    ELSE [t EXCEPT !.content = Append(@, c)]

\* Tag::content, given the Content its argument converts into
TagContent(t, c) == [t EXCEPT !.content = Append(@, c)]

TagSelfClosingClears(t) == [t EXCEPT !.self_closing = TRUE, !.content = <<>>]

\* Tag::self_closing
TagSelfClosing(t) == [t EXCEPT !.self_closing = TRUE]

-----------------------------------------------------------------------------
(***************************************************************************)
(* Rendering.  render_to_buf appends to one buffer; the operators return   *)
(* what is appended.                                                       *)
(***************************************************************************)

RenderAttrAlwaysQuoted(a) == a.key \o <<"=", "\"">> \o a.val \o <<"\"">>

\* impl Render for Attr
RenderAttr(a) ==
    IF a.val = <<>> THEN a.key
    ELSE a.key \o <<"=", "\"">> \o a.val \o <<"\"">>

\* impl Render for Comment
RenderComment(c) == <<"<", "!", "-", "-", " ">> \o c \o <<" ", "-", "-", ">">>

RECURSIVE RenderAttrs(_)
\* self.attributes.iter().try_for_each(...) of impl Render for Tag
RenderAttrs(as) ==
    IF as = <<>> THEN <<>>
    ELSE <<" ">> \o RenderAttr(Head(as)) \o RenderAttrs(Tail(as))

RECURSIVE RenderHtml(_), RenderTag(_), RenderContent(_), RenderContents(_), RenderItems(_)

\* impl Render for Content
RenderContent(c) ==
    IF c.kind = "Html" THEN RenderHtml(c.h) ELSE c.s

\* self.content.iter().try_for_each(...) of impl Render for Tag
RenderContents(cs) ==
    IF cs = <<>> THEN <<>>
    ELSE RenderContent(Head(cs)) \o RenderContents(Tail(cs))

RenderItemsSpaced(v) ==
    IF v = <<>> THEN <<>>
    ELSE RenderHtml(Head(v)) \o (IF Tail(v) = <<>> THEN <<>> ELSE <<" ">>)
         \o RenderItems(Tail(v))

\* h.iter().try_for_each(...) of impl Render for Html
RenderItems(v) ==
    IF v = <<>> THEN <<>>
    ELSE RenderHtml(Head(v)) \o RenderItems(Tail(v))

RenderTagIgnoringFlag(t) ==
    <<"<">> \o t.name \o RenderAttrs(t.attributes) \o <<">">>
        \o RenderContents(t.content) \o <<"<", "/">> \o t.name \o <<">">>

\* impl Render for Tag
RenderTag(t) ==
    <<"<">> \o t.name \o RenderAttrs(t.attributes) \o
        (IF t.self_closing THEN <<">">>
         ELSE <<">">> \o RenderContents(t.content) \o <<"<", "/">> \o t.name \o <<">">>)

\* impl Render for Html
RenderHtml(h) ==
    CASE h.kind = "Tag" -> RenderTag(h.t)
      [] h.kind = "Comment" -> RenderComment(h.c)
      [] h.kind = "Html" -> RenderItems(h.v)

-----------------------------------------------------------------------------
(***************************************************************************)
(* The builder: Tag::new followed by .attr, .content and .self_closing     *)
(* calls, and render().                                                    *)
(***************************************************************************)

Names == { <<"t">>, <<"b", "r">> }
Keys == { <<"k">>, <<"j">> }
Vals == { <<>>, <<"v">>, <<"w">> }
Texts == { <<"x">>, <<>> }

InnerTag == TagContent(TagNew(<<"p">>), ContentStr(<<"y">>))
InnerSeq == <<HtmlComment(CommentNew(<<"c">>)), HtmlTag(InnerTag)>>

\* An argument of .content: a value of one of the types that implement
\* Into<Content> (a string type, Tag, Comment, Html)
StrArg(s) == [ty |-> "Str", s |-> s]
TagArg(t) == [ty |-> "Tag", t |-> t]
CommentArg(c) == [ty |-> "Comment", c |-> c]
HtmlArg(h) == [ty |-> "Html", h |-> h]

\* The arguments passed to .content
ContentInputs ==
    { StrArg(s) : s \in Texts } \cup
    { TagArg(InnerTag),
      TagArg(TagSelfClosing(TagNew(<<"h", "r">>))),
      CommentArg(CommentNew(<<"c">>)),
      HtmlArg(HtmlTag(InnerTag)),
      HtmlArg(HtmlSeq(<<HtmlTag(InnerTag)>>)),
      HtmlArg(HtmlSeq(InnerSeq)) }

\* content.into(): the impls of From<...> for Content
IntoContent(a) ==
    CASE a.ty = "Str" -> ContentStr(a.s)
      [] a.ty = "Tag" -> ContentHtml(HtmlTag(a.t))
      [] a.ty = "Comment" -> ContentHtml(HtmlComment(a.c))
      [] a.ty = "Html" -> ContentHtml(a.h)

\* The Content values the arguments convert into
ContentArgs == { IntoContent(a) : a \in ContentInputs }

NoTag == [name |-> <<>>, attributes |-> <<>>, content |-> <<>>, self_closing |-> FALSE]

InitBuild ==
    /\ tag \in { TagNew(n) : n \in Names }
    /\ calls = <<>>
    /\ out = NoOut

IdleBuild == tag = NoTag /\ calls = <<>> /\ out = NoOut

Attr(k, v) ==
    /\ Len(calls) < MaxCalls
    /\ tag' = TagAttr(tag, k, v)
    /\ calls' = Append(calls, [op |-> "attr", key |-> k, val |-> v])
    /\ out' = NoOut
    /\ UNCHANGED <<seqVars, parseVars>>

\* Tag::content: c is content.into()
Content(a) ==
    /\ Len(calls) < MaxCalls
    /\ tag' = TagContent(tag, IntoContent(a))
    /\ calls' = Append(calls, [op |-> "content", arg |-> a, c |-> IntoContent(a)])
    /\ out' = NoOut
    /\ UNCHANGED <<seqVars, parseVars>>

SelfClosing ==
    /\ Len(calls) < MaxCalls
    /\ tag' = TagSelfClosing(tag)
    /\ calls' = Append(calls, [op |-> "self_closing"])
    /\ out' = NoOut
    /\ UNCHANGED <<seqVars, parseVars>>

\* Render::render on the Tag built so far
Render ==
    /\ out = NoOut
    /\ out' = RenderTag(tag)
    /\ UNCHANGED <<tag, calls, seqVars, parseVars>>

NextBuild ==
    \/ \E k \in Keys, v \in Vals : Attr(k, v)
    \/ \E a \in ContentInputs : Content(a)
    \/ SelfClosing
    \/ Render

-----------------------------------------------------------------------------
(***************************************************************************)
(* Sequences: three elements grouped in the three possible ways.           *)
(***************************************************************************)

Elems ==
    { HtmlTag(InnerTag),
      HtmlTag(TagSelfClosing(TagAttr(TagNew(<<"a">>), <<"k">>, <<"v">>))),
      HtmlTag(TagContent(TagNew(<<"d">>), ContentHtml(HtmlSeq(InnerSeq)))),
      HtmlComment(CommentNew(<<"c">>)),
      HtmlSeq(InnerSeq),
      HtmlSeq(<<>>) }

NoItems == <<>>
NoSeqOut == [left |-> NoOut, right |-> NoOut, flat |-> NoOut]

InitSeq ==
    /\ items \in [1..3 -> Elems]
    /\ seqOut = NoSeqOut

IdleSeq == items = NoItems /\ seqOut = NoSeqOut

\* Render::render of Html::Html(vec![Html::Html(vec![A, B]), C]),
\* Html::Html(vec![A, Html::Html(vec![B, C])]) and Html::Html(vec![A, B, C])
RenderGroupings ==
    /\ seqOut = NoSeqOut
    /\ seqOut' =
        [left |-> RenderHtml(HtmlSeq(<<HtmlSeq(<<items[1], items[2]>>), items[3]>>)),
         right |-> RenderHtml(HtmlSeq(<<items[1], HtmlSeq(<<items[2], items[3]>>)>>)),
         flat |-> RenderHtml(HtmlSeq(<<items[1], items[2], items[3]>>))]
    /\ UNCHANGED <<items, buildVars, parseVars>>

NextSeq == RenderGroupings

-----------------------------------------------------------------------------
(***************************************************************************)
(* The token stream the macro parses.  A token is an identifier, a string  *)
(* literal, a braced Rust expression (opaque: it parses, and evaluates to  *)
(* the value e), a `:`, a `=`, or a parenthesized group of tokens.  Other   *)
(* tokens (numbers, other punctuation, keywords) are outside the alphabet. *)
(***************************************************************************)

StrVal(s) == [kind |-> "Str", s |-> s]
HtmlVal(h) == [kind |-> "Html", h |-> h]

Ident(s) == [k |-> "Ident", s |-> s, e |-> NoVal, ts |-> <<>>]
Lit(s) == [k |-> "Lit", s |-> s, e |-> NoVal, ts |-> <<>>]
Brace(e) == [k |-> "Brace", s |-> <<>>, e |-> e, ts |-> <<>>]
Colon == [k |-> ":", s |-> <<>>, e |-> NoVal, ts |-> <<>>]
Eq == [k |-> "=", s |-> <<>>, e |-> NoVal, ts |-> <<>>]
Paren(ts) == [k |-> "Paren", s |-> <<>>, e |-> NoVal, ts |-> ts]

\* input.peek(..): the kind of the next token, without moving the cursor
Peek(ts, p, k) == p <= Len(ts) /\ ts[p].k = k

\* input.is_empty()
IsEmpty(ts, p) == p > Len(ts)

\* What a parse returns: Ok(val) or Err, the cursor after it (a failed parse
\* leaves the cursor where it had got to), and whether a nested group's
\* buffer was dropped with tokens left (syn's `unexpected` cell, which the
\* buffers of nested groups share and forks do not).
Ok(val, pos, unexp) == [ok |-> TRUE, val |-> val, pos |-> pos, unexp |-> unexp]
Err(pos, unexp) == [ok |-> FALSE, val |-> NoVal, pos |-> pos, unexp |-> unexp]

\* impl Parse for Value
ParseValue(ts, p) ==
    IF Peek(ts, p, "Ident") THEN Ok([kind |-> "Ident", s |-> ts[p].s, e |-> NoVal], p + 1, FALSE)
    ELSE IF Peek(ts, p, "Lit") THEN Ok([kind |-> "Str", s |-> ts[p].s, e |-> NoVal], p + 1, FALSE)
    ELSE IF Peek(ts, p, "Brace") THEN Ok([kind |-> "Expr", s |-> <<>>, e |-> ts[p].e], p + 1, FALSE)
    ELSE Err(p, FALSE)

ParseAttrPairsOnly(ts, p) ==
    LET key == ParseValue(ts, p)
        colon == Peek(ts, key.pos, ":")
        val == ParseValue(ts, key.pos + 1)
    IN  IF key.ok /\ colon /\ val.ok
        THEN Ok([key |-> key.val, val |-> val.val], val.pos, FALSE)
        ELSE Err(IF colon THEN val.pos ELSE key.pos, FALSE)

\* impl Parse for Attr
ParseAttr(ts, p) ==
    LET key == ParseValue(ts, p)
        colon == Peek(ts, key.pos, ":")
        val == ParseValue(ts, key.pos + 1)
    IN  IF colon
        THEN IF ~key.ok \/ ~val.ok THEN Err(val.pos, FALSE)
             ELSE Ok([key |-> key.val, val |-> val.val], val.pos, FALSE)
        ELSE IF key.ok THEN Ok([key |-> key.val, val |-> NoVal], key.pos, FALSE)
             ELSE Err(key.pos, FALSE)

RECURSIVE AttrLoop(_, _, _, _)
\* `while let Ok(attr) = fork.parse() { attrs.push(attr) }` of Tag::parse,
\* from fork position p: the attrs, the fork's final position, and the
\* fork's position after the last Attr that parsed
AttrLoop(ts, p, acc, last) ==
    LET a == ParseAttr(ts, p)
    IN  IF a.ok THEN AttrLoop(ts, a.pos, Append(acc, a.val), a.pos)
        ELSE [attrs |-> acc, pos |-> a.pos, last |-> last]

CommitAlways(main, al) == al.pos

\* `if !attrs.is_empty() { content.advance_to(&fork) }` of Tag::parse
Commit(main, al) == IF al.attrs # <<>> THEN al.pos ELSE main

ContentNone == [kind |-> "None"]

RECURSIVE ParseTag(_, _), ParseHtml(_, _), HtmlLoop(_, _, _, _),
          ParseContent(_, _), ContentLoop(_, _, _, _)

\* `.ok().unwrap_or(Content::None)`
OrContentNone(r) == IF r.ok THEN r ELSE Ok(ContentNone, r.pos, r.unexp)

ParseBodyEqOptionalFailure(ts, c) ==
    OrContentNone(ParseContent(ts, IF Peek(ts, c, "=") THEN c + 1 ELSE c))

\* `let cont = match content.peek(Token![=]) {..}` of Tag::parse
ParseBody(ts, c) ==
    IF Peek(ts, c, "=") THEN ParseContent(ts, c + 1)
    ELSE OrContentNone(ParseContent(ts, c))

\* `Ok(Self { name, attrs, cont })` of Tag::parse, or the error of the body,
\* with the drop of `content`, for the group inner that stands at p
TagReturn(inner, p, nm, al, body) ==
    LET unexp == body.unexp \/ ~IsEmpty(inner, body.pos)
    IN  IF ~body.ok THEN Err(p + 1, unexp)
        ELSE Ok([name |-> nm.val, attrs |-> al.attrs, cont |-> body.val], p + 1, unexp)

\* Tag::parse from the commit on
TagAfterAttrs(inner, p, nm, al) ==
    TagReturn(inner, p, nm, al, ParseBody(inner, Commit(nm.pos, al)))

\* impl Parse for Tag, on the stream ts at p
ParseTag(ts, p) ==
    IF ~Peek(ts, p, "Paren") THEN Err(p, FALSE)
    ELSE LET inner == ts[p].ts
             nm == ParseValue(inner, 1)
         IN  IF ~nm.ok THEN Err(p + 1, ~IsEmpty(inner, nm.pos))
             ELSE TagAfterAttrs(inner, p, nm, AttrLoop(inner, nm.pos, <<>>, nm.pos))

\* `seq.push(html)` and the next turn of the loop of Html::parse, or `?`
HtmlLoopPush(ts, seq, unexp, r) ==
    IF ~r.ok THEN Err(r.pos, unexp \/ r.unexp)
    ELSE HtmlLoop(ts, r.pos, Append(seq, r.val), unexp \/ r.unexp)

\* the loop of Html::parse
HtmlLoop(ts, p, seq, unexp) ==
    IF IsEmpty(ts, p) THEN Ok([kind |-> "Seq", v |-> seq], p, unexp)
    ELSE HtmlLoopPush(ts, seq, unexp, ParseHtml(ts, p))

\* `input.parse().map(Html::Tag).or_else(|_| input.parse().map(Html::Expr))`,
\* given what Tag::parse returned
HtmlElement(ts, t) ==
    IF t.ok THEN Ok([kind |-> "Tag", t |-> t.val], t.pos, t.unexp)
    ELSE IF Peek(ts, t.pos, "Brace")
         THEN Ok([kind |-> "Expr", e |-> ts[t.pos].e], t.pos + 1, t.unexp)
         ELSE Err(t.pos, t.unexp)

\* Html::parse after its first element
HtmlAfterElement(ts, element) ==
    IF ~element.ok THEN element
    ELSE IF Peek(ts, element.pos, "Paren") \/ Peek(ts, element.pos, "Brace")
         THEN HtmlLoop(ts, element.pos, <<element.val>>, element.unexp)
         ELSE element

\* impl Parse for Html (of the macro)
ParseHtml(ts, p) == HtmlAfterElement(ts, HtmlElement(ts, ParseTag(ts, p)))

\* `seq.push(input.parse()?)` and the next turn of the loop of Content::parse
ContentLoopPush(ts, seq, unexp, r) ==
    IF ~r.ok THEN Err(r.pos, unexp \/ r.unexp)
    ELSE ContentLoop(ts, r.pos, Append(seq, r.val), unexp \/ r.unexp)

\* the loop of Content::parse
ContentLoop(ts, p, seq, unexp) ==
    IF IsEmpty(ts, p) THEN Ok([kind |-> "Seq", v |-> seq], p, unexp)
    ELSE ContentLoopPush(ts, seq, unexp, ParseContent(ts, p))

\* `.or_else(|_| input.parse().map(|h: Html| Content::Html(Box::new(h))))`
ContentOfHtml(h) ==
    IF h.ok THEN Ok([kind |-> "Html", h |-> h.val], h.pos, h.unexp)
    ELSE Err(h.pos, h.unexp)

\* `let content = input.parse().map(Content::Str).or_else(..).or_else(..)`
FirstContent(ts, p) ==
    IF Peek(ts, p, "Lit") THEN Ok([kind |-> "Str", s |-> ts[p].s], p + 1, FALSE)
    ELSE IF Peek(ts, p, "Brace") THEN Ok([kind |-> "Expr", e |-> ts[p].e], p + 1, FALSE)
    ELSE ContentOfHtml(ParseHtml(ts, p))

\* Content::parse after its first content
ContentAfterFirst(ts, content) ==
    IF ~content.ok THEN content
    ELSE IF \/ Peek(ts, content.pos, "Paren")
            \/ Peek(ts, content.pos, "Brace")
            \/ Peek(ts, content.pos, "Lit")
         THEN ContentLoop(ts, content.pos, <<content.val>>, content.unexp)
         ELSE content

\* impl Parse for Content
ParseContent(ts, p) == ContentAfterFirst(ts, FirstContent(ts, p))

\* the outcome of parse_macro_input!, given what Html::parse returned
MacroInputResult(ts, r) ==
    IF r.ok /\ ~r.unexp /\ IsEmpty(ts, r.pos) THEN [ok |-> TRUE, val |-> r.val]
    ELSE [ok |-> FALSE, val |-> NoVal]

\* syn's Parser::parse2 behind parse_macro_input!(stream as Html): the parse,
\* then check_unexpected, then no token may be left
ParseMacroInput(ts) == MacroInputResult(ts, ParseHtml(ts, 1))

-----------------------------------------------------------------------------
(***************************************************************************)
(* The code the macro generates (impl ToTokens), as the value it evaluates *)
(* to: the builder calls applied in the order they are written.            *)
(***************************************************************************)

\* impl ToTokens for Value: stringify!(ident), the literal, or the expression
ValueStr(v) == IF v.kind = "Expr" THEN v.e.s ELSE v.s

\* impl ToTokens for Attr: .attr(key, val), with "" for a missing value
ExpandAttr(t, a) ==
    TagAttr(t, ValueStr(a.key), IF a.val = NoVal THEN <<>> ELSE ValueStr(a.val))

RECURSIVE ExpandAttrs(_, _)

ExpandAttrsReversed(t, as) ==
    IF as = <<>> THEN t ELSE ExpandAttr(ExpandAttrs(t, Tail(as)), Head(as))

\* #(#attrs)* of impl ToTokens for Tag
ExpandAttrs(t, as) ==
    IF as = <<>> THEN t ELSE ExpandAttrs(ExpandAttr(t, Head(as)), Tail(as))

RECURSIVE ExpandTag(_), ExpandHtml(_), ExpandItems(_), ExpandContent(_, _),
          ExpandContents(_, _)

\* impl ToTokens for Content, applied to the Tag value built so far
ExpandContent(t, c) ==
    CASE c.kind = "Str" -> TagContent(t, ContentStr(c.s))
      [] c.kind = "Expr" ->
            TagContent(t, IF c.e.kind = "Html" THEN ContentHtml(c.e.h)
                          ELSE ContentStr(c.e.s))
      [] c.kind = "Html" -> TagContent(t, ContentHtml(ExpandHtml(c.h)))
      [] c.kind = "None" -> TagSelfClosing(t)
      [] c.kind = "Seq" -> ExpandContents(t, c.v)

\* s.iter().for_each(|e| e.to_tokens(tokens)) of impl ToTokens for Content
ExpandContents(t, cs) ==
    IF cs = <<>> THEN t ELSE ExpandContents(ExpandContent(t, Head(cs)), Tail(cs))

\* impl ToTokens for Tag
ExpandTag(ta) ==
    ExpandContent(ExpandAttrs(TagNew(ValueStr(ta.name)), ta.attrs), ta.cont)

\* vec![#(#tag.into()),*] of impl ToTokens for Html
ExpandItems(v) ==
    IF v = <<>> THEN <<>> ELSE <<ExpandHtml(Head(v))>> \o ExpandItems(Tail(v))

\* impl ToTokens for Html (of the macro)
ExpandHtml(h) ==
    CASE h.kind = "Tag" -> HtmlTag(ExpandTag(h.t))
      [] h.kind = "Expr" -> h.e.h
      [] h.kind = "Seq" -> HtmlSeq(ExpandItems(h.v))

\* The trait bounds of the generated code: Tag::new and .attr take IntoStr,
\* Html::from takes a value that converts into Html.
ValueTypeChecks(v) == v.kind = "Expr" => v.e.kind = "Str"

RECURSIVE TagTypeChecks(_), HtmlTypeChecks(_), ContentTypeChecks(_)

TagTypeChecks(ta) ==
    /\ ValueTypeChecks(ta.name)
    /\ \A i \in 1..Len(ta.attrs) :
        /\ ValueTypeChecks(ta.attrs[i].key)
        /\ ta.attrs[i].val # NoVal => ValueTypeChecks(ta.attrs[i].val)
    /\ ContentTypeChecks(ta.cont)

ContentTypeChecks(c) ==
    CASE c.kind = "Html" -> HtmlTypeChecks(c.h)
      [] c.kind = "Seq" -> \A i \in 1..Len(c.v) : ContentTypeChecks(c.v[i])
      [] OTHER -> TRUE

HtmlTypeChecks(h) ==
    CASE h.kind = "Tag" -> TagTypeChecks(h.t)
      [] h.kind = "Expr" -> h.e.kind = "Html"
      [] h.kind = "Seq" -> \A i \in 1..Len(h.v) : HtmlTypeChecks(h.v[i])

-----------------------------------------------------------------------------
(***************************************************************************)
(* hteaml!((...)) on one parenthesized tag: Tag::parse step by step on the *)
(* tokens between the parentheses, then the end of the parse, the          *)
(* evaluation of the generated code and the rendering of its value.        *)
(***************************************************************************)

NameToks == { <<>>, <<Ident(<<"t">>)>>, <<Lit(<<"!", "D">>)>> }

KeyParts == { <<>>, <<Ident(<<"k">>)>>, <<Lit(<<"x">>)>> }
ValParts == { <<>>, <<Colon>>, <<Colon, Ident(<<"v">>)>>, <<Colon, Lit(<<>>)>>,
              <<Colon, Brace(StrVal(<<"e">>))>> }

\* What may stand in attribute position: a key or none, then nothing, a
\* colon, or a colon and a value
AttrSegs == { kp \o vp : kp \in KeyParts, vp \in ValParts } \ { <<>> }

RECURSIVE SegSeqs(_)
SegSeqs(n) ==
    IF n = 0 THEN { <<>> }
    ELSE SegSeqs(n - 1) \cup { s \o g : s \in SegSeqs(n - 1), g \in AttrSegs }

GroupSelfClosing == Paren(<<Ident(<<"n">>)>>)
GroupText == Paren(<<Ident(<<"m">>), Eq, Lit(<<"y">>)>>)
GroupNoName == Paren(<<>>)
GroupLeftover == Paren(<<Ident(<<"n">>), Colon>>)
ExprTok == Brace(StrVal(<<"e">>))

\* What may follow the attributes
Bodies ==
    { <<>>,
      <<Eq>>,
      <<Eq, Lit(<<"x">>)>>,
      <<Eq, Lit(<<>>)>>,
      <<Eq, ExprTok>>,
      <<Eq, ExprTok, ExprTok>>,
      <<Eq, Lit(<<"x">>), GroupText>>,
      <<GroupSelfClosing>>,
      <<GroupText>>,
      <<Eq, GroupText>>,
      <<GroupSelfClosing, GroupText>>,
      <<GroupText, Lit(<<"x">>), GroupSelfClosing>>,
      <<GroupSelfClosing, ExprTok>>,
      <<GroupNoName>>,
      <<Eq, GroupNoName>>,
      <<GroupLeftover>>,
      <<Eq, GroupText, Eq>> }

Inputs == { n \o s \o b : n \in NameToks, s \in SegSeqs(MaxAttrs), b \in Bodies }

NoResult == [ok |-> FALSE, val |-> [kind |-> "NotParsed"]]
NoTree == [kind |-> "NoTree"]

InitParse ==
    /\ input \in Inputs
    /\ pc = "name"
    /\ name = NoVal
    /\ cursor = 1
    /\ fork = 1
    /\ attrs = <<>>
    /\ lastOk = 1
    /\ cont = NoVal
    /\ unexpected = FALSE
    /\ result = NoResult
    /\ tree = NoTree
    /\ html = NoOut

IdleParse ==
    /\ input = <<>>
    /\ pc = "idle"
    /\ name = NoVal
    /\ cursor = 1
    /\ fork = 1
    /\ attrs = <<>>
    /\ lastOk = 1
    /\ cont = NoVal
    /\ unexpected = FALSE
    /\ result = NoResult
    /\ tree = NoTree
    /\ html = NoOut

\* `let name = content.parse()?; let mut attrs = vec![]; let fork = content.fork();`
ParseName ==
    /\ pc = "name"
    /\ LET nm == ParseValue(input, cursor)
       IN  IF nm.ok
           THEN /\ name' = nm.val
                /\ cursor' = nm.pos
                /\ fork' = nm.pos
                /\ lastOk' = nm.pos
                /\ pc' = "attrs"
                /\ UNCHANGED unexpected
           ELSE /\ pc' = "failed"
                /\ unexpected' = ~IsEmpty(input, nm.pos)
                /\ UNCHANGED <<name, cursor, fork, lastOk>>
    /\ UNCHANGED <<input, attrs, cont, result, tree, html,
                 buildVars, seqVars>>

\* one `fork.parse()` of `while let Ok(attr) = fork.parse() { attrs.push(attr) }`
ForkParseAttr ==
    /\ pc = "attrs"
    /\ LET a == ParseAttr(input, fork)
       IN  /\ fork' = a.pos
           /\ IF a.ok
              THEN /\ attrs' = Append(attrs, a.val)
                   /\ lastOk' = a.pos
                   /\ pc' = "attrs"
              ELSE /\ pc' = "commit"
                   /\ UNCHANGED <<attrs, lastOk>>
    /\ UNCHANGED <<input, name, cursor, cont, unexpected, result, tree, html,
                 buildVars, seqVars>>

\* `if !attrs.is_empty() { content.advance_to(&fork); }`
AdvanceTo ==
    /\ pc = "commit"
    /\ cursor' = Commit(cursor, [attrs |-> attrs, pos |-> fork, last |-> lastOk])
    /\ pc' = "body"
    /\ UNCHANGED <<input, name, fork, attrs, lastOk, cont, unexpected, result, tree, html,
                 buildVars, seqVars>>

\* `let cont = match content.peek(Token![=]) {..}; Ok(Self { name, attrs, cont })`
\* and the drop of `content`
ParseTagBody ==
    /\ pc = "body"
    /\ LET body == ParseBody(input, cursor)
       IN  /\ cursor' = body.pos
           /\ unexpected' = (body.unexp \/ ~IsEmpty(input, body.pos))
           /\ IF body.ok
              THEN cont' = body.val /\ pc' = "returned"
              ELSE cont' = cont /\ pc' = "failed"
    /\ UNCHANGED <<input, name, fork, attrs, lastOk, result, tree, html,
                 buildVars, seqVars>>

\* The rest of parse_macro_input!: Html::parse has its element (or, after
\* Tag::parse failed, finds no braced expression), no token follows the
\* group, and syn reports an error if a buffer was dropped with tokens left.
Finish ==
    /\ pc \in {"returned", "failed"}
    /\ result' =
        IF pc = "returned" /\ ~unexpected
        THEN [ok |-> TRUE,
              val |-> [kind |-> "Tag",
                       t |-> [name |-> name, attrs |-> attrs, cont |-> cont]]]
        ELSE [ok |-> FALSE, val |-> NoVal]
    /\ pc' = "parsed"
    /\ UNCHANGED <<input, name, cursor, fork, attrs, lastOk, cont, unexpected, tree, html,
                 buildVars, seqVars>>

\* The generated code is compiled and evaluated
Expand ==
    /\ pc = "parsed"
    /\ result.ok
    /\ HtmlTypeChecks(result.val)
    /\ tree' = ExpandHtml(result.val)
    /\ pc' = "expanded"
    /\ UNCHANGED <<input, name, cursor, fork, attrs, lastOk, cont, unexpected, result, html,
                 buildVars, seqVars>>

\* Render::render on the value of the macro invocation
RenderTree ==
    /\ pc = "expanded"
    /\ html' = RenderHtml(tree)
    /\ pc' = "rendered"
    /\ UNCHANGED <<input, name, cursor, fork, attrs, lastOk, cont, unexpected, result, tree,
                 buildVars, seqVars>>

NextParse ==
    \/ ParseName
    \/ ForkParseAttr
    \/ AdvanceTo
    \/ ParseTagBody
    \/ Finish
    \/ Expand
    \/ RenderTree

-----------------------------------------------------------------------------
(***************************************************************************)
(* hteaml!{ ... } on a stream of top-level tokens: the whole parse in one  *)
(* step, then the evaluation of the generated code and the rendering.      *)
(***************************************************************************)

ExprHtmlTok == Brace(HtmlVal(HtmlComment(CommentNew(<<"c">>))))
GroupTwo == Paren(<<Ident(<<"t">>), Eq, Lit(<<"x">>), GroupSelfClosing>>)
GroupThree == Paren(<<Ident(<<"t">>), Eq, Lit(<<"x">>), ExprTok, Lit(<<"z">>)>>)
GroupNested == Paren(<<Ident(<<"d">>), GroupSelfClosing, GroupText, GroupSelfClosing>>)

\* What may stand at top level: tags, braced expressions, and a literal,
\* which is no element
TopToks ==
    { GroupSelfClosing, GroupText, GroupTwo, GroupThree, GroupNested,
      ExprHtmlTok, ExprTok, Lit(<<"x">>) }

RECURSIVE TopSeqs(_)
TopSeqs(n) ==
    IF n = 0 THEN { <<>> }
    ELSE TopSeqs(n - 1) \cup { s \o <<t>> : s \in TopSeqs(n - 1), t \in TopToks }

TopInputs == TopSeqs(MaxTop) \ { <<>> }

InitTop ==
    /\ input \in TopInputs
    /\ pc = "top"
    /\ name = NoVal
    /\ cursor = 1
    /\ fork = 1
    /\ attrs = <<>>
    /\ lastOk = 1
    /\ cont = NoVal
    /\ unexpected = FALSE
    /\ result = NoResult
    /\ tree = NoTree
    /\ html = NoOut

\* `let html = parse_macro_input!(stream as Html);`
ParseTop ==
    /\ pc = "top"
    /\ result' = ParseMacroInput(input)
    /\ pc' = "parsed"
    /\ UNCHANGED <<input, name, cursor, fork, attrs, lastOk, cont, unexpected, tree, html,
                 buildVars, seqVars>>

NextTop ==
    \/ ParseTop
    \/ Expand
    \/ RenderTree

-----------------------------------------------------------------------------
(***************************************************************************)
(* The specifications: the builder, the sequences, the parser.             *)
(***************************************************************************)

Init == InitBuild /\ IdleSeq /\ IdleParse
Next == NextBuild
Spec == Init /\ [][Next]_vars

InitSeqSpec == IdleBuild /\ InitSeq /\ IdleParse
SpecSeq == InitSeqSpec /\ [][NextSeq]_vars

InitParseSpec == IdleBuild /\ IdleSeq /\ InitParse
SpecParse == InitParseSpec /\ [][NextParse]_vars

InitTopSpec == IdleBuild /\ IdleSeq /\ InitTop
SpecTop == InitTopSpec /\ [][NextTop]_vars

\* The step-by-step parse and impl Parse for Html on the whole input agree.
StepsAgree ==
    pc \in {"parsed", "expanded", "rendered"} =>
        result = ParseMacroInput(<<Paren(input)>>)

-----------------------------------------------------------------------------
(***************************************************************************)
(* Auxiliary definitions of the properties.                                *)
(***************************************************************************)

RECURSIVE Concat(_)
\* the concatenation of a sequence of strings
Concat(ss) == IF ss = <<>> THEN <<>> ELSE Head(ss) \o Concat(Tail(ss))

RECURSIVE SelectCalls(_, _)
\* the calls of cs whose op is op, in call order
SelectCalls(cs, op) ==
    IF cs = <<>> THEN <<>>
    ELSE (IF Head(cs).op = op THEN <<Head(cs)>> ELSE <<>>) \o SelectCalls(Tail(cs), op)

AttrCalls == SelectCalls(calls, "attr")
ContentCalls == SelectCalls(calls, "content")
CalledSelfClosing == \E i \in 1..Len(calls) : calls[i].op = "self_closing"

\* key alone for an empty value, key="value" otherwise
AttrText(k, v) == IF Len(v) = 0 THEN k ELSE k \o <<"=", "\"">> \o v \o <<"\"">>

OpenTag(n, attrTexts) ==
    <<"<">> \o n \o Concat([i \in 1..Len(attrTexts) |-> <<" ">> \o attrTexts[i]]) \o <<">">>
CloseTag(n) == <<"<", "/">> \o n \o <<">">>

IsPrefix(p, s) == Len(p) <= Len(s) /\ SubSeq(s, 1, Len(p)) = p
Occurs(p, s) == \E i \in 1..(Len(s) - Len(p) + 1) : SubSeq(s, i, i + Len(p) - 1) = p

-----------------------------------------------------------------------------
(***************************************************************************)
(* Properties of the builder and the renderer (specification Spec).        *)
(***************************************************************************)

\* C1: a rendered Tag is `<name`, one space and the rendered attribute for
\* each stored attribute in order, `>`, and then, unless self_closing, the
\* rendering of every content item in order and `</name>`; Tag::new(n)
\* renders as <n></n> and Tag::new(n).attr(k,v).content(t) with a non-empty
\* v as <n k="v">t</n>.
C1_TagRendering ==
    out # NoOut =>
        /\ out = OpenTag(tag.name,
                         [i \in 1..Len(tag.attributes) |-> RenderAttr(tag.attributes[i])])
                 \o (IF tag.self_closing THEN <<>>
                     ELSE Concat([i \in 1..Len(tag.content) |->
                                    RenderContent(tag.content[i])])
                          \o CloseTag(tag.name))
        /\ calls = <<>> => out = <<"<">> \o tag.name \o <<">", "<", "/">> \o tag.name \o <<">">>
        /\ \A k \in Keys, v \in Vals \ {<<>>}, t \in Texts :
            calls = <<[op |-> "attr", key |-> k, val |-> v],
                      [op |-> "content", arg |-> StrArg(t), c |-> ContentStr(t)]>>
            => out = <<"<">> \o tag.name \o <<" ">> \o k \o <<"=", "\"">> \o v
                     \o <<"\"", ">">> \o t \o <<"<", "/">> \o tag.name \o <<">">>

C1_Witness ==
    /\ out # NoOut
    /\ Len(calls) = 3
    /\ calls[1].op = "attr" /\ calls[1].val # <<>>
    /\ calls[2].op = "attr"
    /\ calls[3].op = "content" /\ calls[3].c.kind = "Html"

\* C2: once .self_closing() was called, the rendering is exactly `<name`,
\* the attributes and `>`, with no closing tag and none of the content,
\* whether the content was appended before or after the call; the content
\* stays stored in the Tag.
C2_SelfClosing ==
    CalledSelfClosing =>
        /\ tag.content = [i \in 1..Len(ContentCalls) |-> ContentCalls[i].c]
        /\ out # NoOut =>
            /\ out = OpenTag(tag.name,
                             [i \in 1..Len(AttrCalls) |->
                                AttrText(AttrCalls[i].key, AttrCalls[i].val)])
            /\ ~Occurs(CloseTag(tag.name), out)

C2_Witness ==
    /\ out # NoOut
    /\ Len(calls) = 3
    /\ calls[1].op = "content" /\ calls[1].c = ContentStr(<<"x">>)
    /\ calls[2].op = "self_closing"
    /\ calls[3].op = "content" /\ calls[3].c.kind = "Html"

\* C4: the stored attributes are the (key, value) pairs of the .attr calls
\* in call order and the stored content is that of the .content calls in
\* call order; a repeated key appends a further attribute, and every
\* attribute is rendered, in insertion order.
C4_InsertionOrder ==
    /\ tag.attributes =
        [i \in 1..Len(AttrCalls) |-> [key |-> AttrCalls[i].key, val |-> AttrCalls[i].val]]
    /\ tag.content = [i \in 1..Len(ContentCalls) |-> ContentCalls[i].c]
    /\ out # NoOut =>
        IsPrefix(OpenTag(tag.name,
                         [i \in 1..Len(AttrCalls) |->
                            AttrText(AttrCalls[i].key, AttrCalls[i].val)]),
                 out)

C4_Witness ==
    /\ out # NoOut
    /\ Len(calls) = 3
    /\ calls[1].op = "attr" /\ calls[2].op = "content" /\ calls[3].op = "attr"
    /\ calls[1].key = calls[3].key
    /\ calls[1].val # calls[3].val

-----------------------------------------------------------------------------
(***************************************************************************)
(* Properties of sequences (specification SpecSeq).                        *)
(***************************************************************************)

\* C5: a Sequence renders as the concatenation of the renderings of its
\* items, with no separator and no wrapping, so [[A,B],C], [A,[B,C]] and
\* [A,B,C] render to the same string.
C5_SequenceFlattening ==
    seqOut # NoSeqOut =>
        /\ seqOut.flat = RenderHtml(items[1]) \o RenderHtml(items[2]) \o RenderHtml(items[3])
        /\ seqOut.left = seqOut.flat
        /\ seqOut.right = seqOut.flat

C5_Witness ==
    /\ seqOut # NoSeqOut
    /\ items[1].kind = "Tag"
    /\ items[2].kind = "Html" /\ items[2].v # <<>>
    /\ items[3].kind = "Comment"

-----------------------------------------------------------------------------
(***************************************************************************)
(* Properties of the parser and the generated code (specification          *)
(* SpecParse).                                                             *)
(***************************************************************************)

IsValueTok(tok) == tok.k \in {"Ident", "Lit", "Brace"}
\* the string a Value token stands for
TokStr(tok) == IF tok.k = "Brace" THEN tok.e.s ELSE tok.s

Expanded == pc \in {"expanded", "rendered"}

\* the text of the parsed attribute a: the bare key when it has no value or
\* an empty one
ParsedAttrText(a) ==
    AttrText(ValueStr(a.key), IF a.val = NoVal THEN <<>> ELSE ValueStr(a.val))

\* C3: an attribute whose value is the empty string renders as the bare key
\* and one with a non-empty value as key="value"; an attribute written
\* without a value is the attribute .attr(key, "") builds, and renders as it.
C3_ValueElision ==
    pc = "rendered" =>
        /\ Len(tree.t.attributes) = Len(attrs)
        /\ \A i \in 1..Len(attrs) :
            attrs[i].val = NoVal =>
                tree.t.attributes[i] =
                    TagAttr(TagNew(<<>>), ValueStr(attrs[i].key), <<>>).attributes[1]
        /\ IsPrefix(OpenTag(tree.t.name,
                            [i \in 1..Len(attrs) |-> ParsedAttrText(attrs[i])]),
                    html)

C3_Witness ==
    /\ pc = "rendered"
    /\ Len(attrs) = 2
    /\ attrs[1].val = NoVal
    /\ attrs[2].val # NoVal /\ ValueStr(attrs[2].val) = <<>>

\* the input is a name, n key:value pairs, `=` and a string literal
PairsAndText(n) ==
    /\ Len(input) = 3 * n + 3
    /\ IsValueTok(input[1])
    /\ \A j \in 0..(n - 1) :
        /\ IsValueTok(input[3 * j + 2])
        /\ input[3 * j + 3] = Colon
        /\ IsValueTok(input[3 * j + 4])
    /\ input[3 * n + 2] = Eq
    /\ input[3 * n + 3].k = "Lit"

RECURSIVE BuiltPairs(_)
\* Tag::new(name).attr(k1, v1)...attr(kn, vn) for the pairs of the input
BuiltPairs(n) ==
    IF n = 0 THEN TagNew(TokStr(input[1]))
    ELSE TagAttr(BuiltPairs(n - 1), TokStr(input[3 * n - 1]), TokStr(input[3 * n + 1]))

\* C6: parsing (name k1:v1 ... kn:vn = "text") yields the tree
\* Html::Tag(Tag::new(name).attr(k1,v1)...attr(kn,vn).content(text)) and
\* parsing (name) yields Html::Tag(Tag::new(name).self_closing()); the two
\* render to the same output.
C6_ParserBuilderAgree ==
    /\ \A n \in 0..(Len(input) \div 3) :
        PairsAndText(n) =>
            LET built == HtmlTag(TagContent(BuiltPairs(n),
                                            ContentStr(input[3 * n + 3].s)))
            IN  /\ pc = "parsed" => result.ok /\ HtmlTypeChecks(result.val)
                /\ Expanded => tree = built
                /\ pc = "rendered" => html = RenderHtml(built)
    /\ Len(input) = 1 /\ IsValueTok(input[1]) =>
            LET built == HtmlTag(TagSelfClosing(TagNew(TokStr(input[1]))))
            IN  /\ pc = "parsed" => result.ok /\ HtmlTypeChecks(result.val)
                /\ Expanded => tree = built
                /\ pc = "rendered" => html = RenderHtml(built)

C6_Witness ==
    /\ pc = "rendered"
    /\ PairsAndText(2)
    /\ <<input[2], input[4]>> # <<input[5], input[7]>>

\* C7: the attributes are parsed on the fork; with at least one Attr the
\* main cursor is advanced to the fork, with none it stays at the end of the
\* name and what follows is read as the body.  (tag (nested)) is a Tag with
\* no attribute and one nested content item, the Tag nested; (tag key:val)
\* is a self-closing Tag with the one attribute key="val".
C7_AttrListAmbiguity ==
    /\ pc \in {"attrs", "commit"} => cursor = 2
    /\ pc = "body" => cursor = (IF attrs # <<>> THEN fork ELSE 2)
    /\ pc = "returned" /\ attrs = <<>> => cont = ParseBody(input, 2).val
    /\ input = <<Ident(<<"t">>), GroupSelfClosing>> =>
        /\ pc = "parsed" => result.ok
        /\ Expanded =>
            tree = HtmlTag(TagContent(TagNew(<<"t">>),
                        ContentHtml(HtmlTag(TagSelfClosing(TagNew(<<"n">>))))))
    /\ input = <<Ident(<<"t">>), Ident(<<"k">>), Colon, Ident(<<"v">>)>> =>
        /\ pc = "parsed" => result.ok
        /\ Expanded =>
            tree = HtmlTag(TagSelfClosing(TagAttr(TagNew(<<"t">>), <<"k">>, <<"v">>)))

C7_Witness ==
    /\ pc = "rendered"
    /\ input = <<Ident(<<"t">>), GroupSelfClosing>>
    /\ html = <<"<", "t", ">", "<", "n", ">", "<", "/", "t", ">">>

\* the tag is written with a name and attributes alone
NoBodyWritten == name # NoVal /\ lastOk = Len(input) + 1

C8_BodyStep ==
    pc = "body" =>
        LET eq == Peek(input, cursor, "=")
            c == ParseContent(input, IF eq THEN cursor + 1 ELSE cursor)
        IN  /\ c.ok => pc' = "returned" /\ cont' = c.val
            /\ eq /\ ~c.ok => pc' = "failed"
            /\ ~eq /\ ~c.ok => pc' = "returned" /\ cont' = ContentNone

C8_Results ==
    /\ pc = "parsed" /\ name # NoVal /\ cont = NoVal => ~result.ok
    /\ Expanded /\ cont = ContentNone =>
        tree.t.self_closing /\ tree.t.content = <<>>
    /\ pc = "rendered" /\ NoBodyWritten =>
        html = OpenTag(ValueStr(name), [i \in 1..Len(attrs) |-> ParsedAttrText(attrs[i])])
    /\ Len(input) = 3 /\ IsValueTok(input[1]) /\ input[2] = Eq /\ input[3] = Lit(<<>>) =>
        /\ pc = "parsed" => result.ok
        /\ pc = "rendered" =>
            html = <<"<">> \o TokStr(input[1]) \o <<">", "<", "/">> \o TokStr(input[1])
                   \o <<">">>

\* C8: after the name and the attributes, a `=` is consumed and a Content
\* must follow, or the tag fails; without `=` a Content is tried, and when
\* none parses the tag has no content and is self-closing.  A tag with
\* neither renders as one open marker; (name = "") renders as <name></name>.
C8_TagBody == [][C8_BodyStep]_vars /\ []C8_Results

C8_Witness ==
    /\ pc = "parsed"
    /\ name # NoVal
    /\ attrs # <<>>
    /\ cont = NoVal
    /\ Peek(input, fork, "=")

C9_AttrStep ==
    pc = "attrs" /\ ParseValue(input, fork).ok /\ ~Peek(input, fork + 1, ":") =>
        /\ attrs' = Append(attrs, [key |-> ParseValue(input, fork).val, val |-> NoVal])
        /\ fork' = fork + 1

C9_Results ==
    /\ Expanded =>
        \A i \in 1..Len(attrs) :
            attrs[i].val = NoVal =>
                tree.t.attributes[i] = [key |-> ValueStr(attrs[i].key), val |-> <<>>]
    /\ pc = "rendered" =>
        IsPrefix(OpenTag(tree.t.name,
                         [i \in 1..Len(attrs) |->
                            IF attrs[i].val = NoVal THEN ValueStr(attrs[i].key)
                            ELSE RenderAttr(tree.t.attributes[i])]),
                 html)
    /\ input = <<Ident(<<"t">>), Ident(<<"k">>), Eq, Lit(<<"x">>)>> =>
        /\ pc = "parsed" => result.ok
        /\ pc = "rendered" => html = <<"<", "t", " ", "k", ">", "x", "<", "/", "t", ">">>
    /\ input = <<Lit(<<"!", "D">>), Ident(<<"k">>)>> =>
        /\ pc = "parsed" => result.ok
        /\ pc = "rendered" => html = <<"<", "!", "D", " ", "k", ">">>

\* C9: in attribute position a Value that no `:` follows is an attribute
\* with that key and an empty value, and renders as the bare key:
\* (tag attr = "content") is <tag attr>content</tag> and ("!DOCTYPE" html)
\* is <!DOCTYPE html>.
C9_BareKeys == [][C9_AttrStep]_vars /\ []C9_Results

C9_Witness ==
    /\ pc = "rendered"
    /\ input = <<Lit(<<"!", "D">>), Ident(<<"k">>)>>

\* C10: after the attribute list is parsed the main cursor is exactly at
\* the end of the last Attr that parsed, or at the end of the name when none
\* did: no token that a failing Attr attempt read on the fork is skipped on
\* the main cursor.
C10_NoConsumptionOnFailure ==
    pc = "body" => cursor = lastOk

-----------------------------------------------------------------------------
(***************************************************************************)
(* The tokens a parsed tree was read from, to compare with the input.      *)
(***************************************************************************)

RECURSIVE StripEq(_)
\* the tokens ts without the `=` signs, in the nested groups too
StripEq(ts) ==
    IF ts = <<>> THEN <<>>
    ELSE (IF Head(ts) = Eq THEN <<>>
          ELSE IF Head(ts).k = "Paren" THEN <<Paren(StripEq(Head(ts).ts))>>
          ELSE <<Head(ts)>>) \o StripEq(Tail(ts))

ValueTok(v) ==
    CASE v.kind = "Ident" -> Ident(v.s)
      [] v.kind = "Str" -> Lit(v.s)
      [] v.kind = "Expr" -> Brace(v.e)

AttrToks(a) ==
    <<ValueTok(a.key)>> \o (IF a.val = NoVal THEN <<>> ELSE <<Colon, ValueTok(a.val)>>)

RECURSIVE TagToks(_), HtmlToks(_), ContentToks(_)

\* the tokens of a parsed Tag between its parentheses, without the `=`
TagToks(ta) ==
    <<ValueTok(ta.name)>> \o Concat([i \in 1..Len(ta.attrs) |-> AttrToks(ta.attrs[i])])
        \o ContentToks(ta.cont)

HtmlToks(h) ==
    CASE h.kind = "Tag" -> <<Paren(TagToks(h.t))>>
      [] h.kind = "Expr" -> <<Brace(h.e)>>
      [] h.kind = "Seq" -> Concat([i \in 1..Len(h.v) |-> HtmlToks(h.v[i])])

ContentToks(c) ==
    CASE c.kind = "Str" -> <<Lit(c.s)>>
      [] c.kind = "Expr" -> <<Brace(c.e)>>
      [] c.kind = "Html" -> HtmlToks(c.h)
      [] c.kind = "Seq" -> Concat([i \in 1..Len(c.v) |-> ContentToks(c.v[i])])
      [] c.kind = "None" -> <<>>

\* after the name, a `:` that lacks its key or its value
MalformedPair ==
    \E i \in 2..Len(input) :
        /\ input[i] = Colon
        /\ \/ i = 2
           \/ ~IsValueTok(input[i - 1])
           \/ i = Len(input)
           \/ ~IsValueTok(input[i + 1])

\* a nested element that does not parse: it has no name, or tokens left over
FailingNested ==
    \E i \in 1..Len(input) : input[i] \in {GroupNoName, GroupLeftover}

\* C11: when parsing fails inside a tag (a `:` without its key or value, a
\* nested element that does not parse, after a `=` or not) the parse of the
\* whole input returns an error; a tree that is returned accounts for every
\* token of the input.
C11_FailuresPropagate ==
    pc = "parsed" =>
        /\ MalformedPair \/ FailingNested => ~result.ok
        /\ result.ok => TagToks(result.val.t) = StripEq(input)

-----------------------------------------------------------------------------
(***************************************************************************)
(* What .content stores for each kind of argument (specification Spec).    *)
(***************************************************************************)

\* the items a flattening .content would store for the argument a
FlatItems(a) ==
    IF a.ty = "Html" /\ a.h.kind = "Html"
    THEN [i \in 1..Len(a.h.v) |-> ContentHtml(a.h.v[i])]
    ELSE <<IntoContent(a)>>

\* the rendering of the argument a on its own
RenderArg(a) ==
    CASE a.ty = "Str" -> a.s
      [] a.ty = "Tag" -> RenderTag(a.t)
      [] a.ty = "Comment" -> RenderComment(a.c)
      [] a.ty = "Html" -> RenderHtml(a.h)

\* C12 as stated: a Sequence of k elements passed to .content is flattened,
\* the content list grows by its k items in order and not by one wrapping
\* item; a string becomes one text item, a Tag or a Comment one nested item.
C12_SequenceFlattened ==
    tag.content = Concat([i \in 1..Len(ContentCalls) |-> FlatItems(ContentCalls[i].arg)])

\* C12: every .content call appends exactly one item: a Sequence of k
\* elements becomes one Content::Html holding the whole Sequence, for every
\* k, a string one text item, a Tag or a Comment one nested item; the
\* content renders as the concatenation of the renderings of the arguments,
\* a Sequence rendering as its k elements one after the other.
C12_SequenceWrapped ==
    /\ Len(tag.content) = Len(ContentCalls)
    /\ \A i \in 1..Len(ContentCalls) :
        LET a == ContentCalls[i].arg
            c == tag.content[i]
        IN  /\ a.ty = "Str" => c.kind = "Str" /\ c.s = a.s
            /\ a.ty = "Tag" => c.kind = "Html" /\ c.h.kind = "Tag" /\ c.h.t = a.t
            /\ a.ty = "Comment" => c.kind = "Html" /\ c.h.kind = "Comment" /\ c.h.c = a.c
            /\ a.ty = "Html" => c.kind = "Html" /\ c.h = a.h
            /\ RenderContent(c) = RenderArg(a)
            /\ a.ty = "Html" /\ a.h.kind = "Html" =>
                RenderContent(c) = Concat([j \in 1..Len(a.h.v) |-> RenderHtml(a.h.v[j])])
    /\ out # NoOut /\ ~tag.self_closing =>
        out = OpenTag(tag.name,
                      [i \in 1..Len(tag.attributes) |-> RenderAttr(tag.attributes[i])])
              \o Concat([i \in 1..Len(ContentCalls) |-> RenderArg(ContentCalls[i].arg)])
              \o CloseTag(tag.name)

C12_Witness ==
    /\ out # NoOut
    /\ ~tag.self_closing
    /\ Len(calls) = 3
    /\ calls[1].op = "content" /\ calls[1].arg = HtmlArg(HtmlSeq(InnerSeq))
    /\ calls[2].op = "content" /\ calls[2].arg.ty = "Str"
    /\ calls[3].op = "content" /\ calls[3].arg = HtmlArg(HtmlSeq(<<HtmlTag(InnerTag)>>))
    /\ Len(tag.content) = 3

-----------------------------------------------------------------------------
(***************************************************************************)
(* Properties of the collection of sequences (specification SpecTop).      *)
(***************************************************************************)

\* the token tok is one element at top level, and what it parses to
IsElement(tok) == tok.k \in {"Paren", "Brace"} /\ ParseMacroInput(<<tok>>).ok
OneHtml(tok) == ParseHtml(<<tok>>, 1).val

\* the token tok is one element of a tag's content, and what it parses to
IsContentElement(tok) ==
    /\ tok.k \in {"Lit", "Brace", "Paren"}
    /\ ParseContent(<<tok>>, 1).ok
    /\ ~ParseContent(<<tok>>, 1).unexp
OneContent(tok) == ParseContent(<<tok>>, 1).val

\* the content elements written in a tag without attributes: what follows
\* `name =`, or what follows the name when a group comes first
BodyElems(ts) ==
    IF Len(ts) >= 2 /\ ts[2] = Eq THEN SubSeq(ts, 3, Len(ts))
    ELSE IF Len(ts) >= 2 /\ ts[2].k = "Paren" THEN SubSeq(ts, 2, Len(ts))
    ELSE <<>>

\* c is the one flat sequence of the content elements b
FlatContent(c, b) ==
    \/ c = [kind |-> "Seq", v |-> [i \in 1..Len(b) |-> OneContent(b[i])]]
    \/ /\ \A i \in 1..Len(b) : b[i].k \in {"Paren", "Brace"}
       /\ c = [kind |-> "Html",
               h |-> [kind |-> "Seq", v |-> [i \in 1..Len(b) |-> OneHtml(b[i])]]]

\* C13: at top level and in tag content, one parsed element is returned as
\* itself and not as a one-element Sequence; N >= 2 consecutive elements are
\* returned as one Sequence whose items are exactly the N elements in
\* source order, for N >= 3 too; the rendering is the concatenation of the
\* N renderings in source order.
C13_SequenceCollection ==
    LET n == Len(input)
        b == BodyElems(input[1].ts)
    IN  /\ pc = "parsed" /\ (\A i \in 1..n : IsElement(input[i])) =>
            /\ result.ok
            /\ n = 1 => result.val = OneHtml(input[1]) /\ result.val.kind # "Seq"
            /\ n >= 2 =>
                result.val = [kind |-> "Seq", v |-> [i \in 1..n |-> OneHtml(input[i])]]
        /\ /\ pc = "parsed" /\ n = 1 /\ input[1].k = "Paren" /\ b # <<>>
           /\ \A i \in 1..Len(b) : IsContentElement(b[i])
           => /\ result.ok
              /\ Len(b) = 1 => result.val.t.cont = OneContent(b[1])
              /\ Len(b) >= 2 => FlatContent(result.val.t.cont, b)
        /\ pc = "rendered" =>
            html = Concat([i \in 1..n |-> RenderHtml(ExpandHtml(OneHtml(input[i])))])

====
